---- MODULE Spec2Model ----
(***************************************************************************)
(* Music toys of cawel.github.com: the beat sequencer (sequencer.js), the  *)
(* drift-corrected lookahead transport (transport.js, as listed in the     *)
(* beat sequencer's README.md) and the metronome (MetronomeEngine,         *)
(* main.js, MetronomeUI).                                                  *)
(*                                                                         *)
(* One page is loaded per behaviour (app): "sequencer" is the beat         *)
(* sequencer's page with the self-timed sequencer (ui.js), "transport" the *)
(* lookahead transport with its controls, "player" the beat sequencer's    *)
(* page on the transport, whose step subscriber plays the hits (part_001), *)
(* "editor" a sequencer of sequencer.js whose caller edits the grid with   *)
(* any arguments and never plays it, "bus" a sequencer of sequencer.js     *)
(* with an empty one-column grid whose caller subscribes and unsubscribes  *)
(* handlers with on() while it plays,                                      *)
(* "engine" the metronome engine alone, "metronome" the metronome's page,  *)
(* "speech" the voice control of the chord generator (speech.js) on a      *)
(* browser that has SpeechRecognition.                                     *)
(* Times are integers in                                                   *)
(* milliseconds.  The audio clock is kept in a moving frame: currentTime   *)
(* is the origin, and a stored clock time (nextStepTime, nextNoteTime)     *)
(* holds its distance to the clock's present value; ClockAdvance(d) moves  *)
(* every stored time d ms towards the past.                                *)
(***************************************************************************)
EXTENDS Integers, Sequences, FiniteSets, TLC

VARIABLES
    app,            \* the page that is loaded
    \* ---- sequencer.js: listeners, the subscribers of each event class in
    \*      the order of their on() calls
    listeners,
    \* ---- sequencer.js: createSequencer's closure
    numCols, numOctaves, bpm, currentStep, playing, timerId, notes, grid,
    \* ---- transport.js: createTransport's closure
    trPlaying, timeoutId, nextStepTime,
    \* ---- MetronomeEngine's private fields (#bpm is engineBpm)
    engine, engineBpm, beatsPerBar, beatIndex, isRunning, intervalId, nextNoteTime,
    \* ---- main.js / MetronomeUI: the page (main.js, the page of part_005
    \*      with the beats control, or "part_005:1", the 4-beat page with the
    \*      Space shortcut that part_005 lists first), the
    \*      outstanding visual callbacks, #activeIdx, the dots that carry the
    \*      class is-active (lit), #dots.length, the
    \*      buttons' state, and the start() calls awaiting ensureStarted()
    page, pending, activeIdx, lit, dots, uiRunning, starting,
    \* ---- MetronomeAudio: the audio contexts its ensureStarted() has made
    contexts,
    \* ---- the host's timers (window.setInterval / window.setTimeout)
    timers,
    \* ---- the handler in progress: "idle", "pump" inside pump's loop,
    \*      "scheduler" inside #scheduler's loop
    pc,
    \* ---- what the last call did: its name and the events it emitted
    lastCall, emitted,
    \* ---- the current run of consecutive stepOnce calls of sequencer.js
    runStart, runSeen,
    \* ---- the scheduler wake in progress or last completed: how it was
    \*      entered ("start": by start(), "timer", "first": by the timer for
    \*      the first time since start()), how many steps it emitted; whether the tempo of the
    \*      transport (of the engine under test) is the one start() found
    wakeFrom, wakeSteps, tempoConst,
    \* ---- speech.js: the recogniser ("none" before ensure(), "inactive",
    \*      "active" in a session, "ending" between stop()/error and onend),
    \*      create's closure (restartTimer: a restart is pending), the
    \*      onCommand calls of the session, what the last event held
    recognition, enabled, sessionStatus, restartTimer, firedThisSession,
    sessionCommands, heard

seqVars == <<numCols, numOctaves, bpm, currentStep, playing, timerId, notes, grid>>
trVars == <<trPlaying, timeoutId, nextStepTime>>
runVars == <<runStart, runSeen>>
wakeVars == <<wakeFrom, wakeSteps, tempoConst>>
engVars == <<engine, engineBpm, beatsPerBar, beatIndex, isRunning, intervalId, nextNoteTime>>
pageVars == <<page, pending, activeIdx, lit, dots, uiRunning, starting>>
speechVars == <<recognition, enabled, sessionStatus, restartTimer, firedThisSession, sessionCommands, heard>>
vars == <<app, listeners, contexts, seqVars, trVars, engVars, pageVars, timers, pc, lastCall, emitted, runVars, wakeVars,
          speechVars>>

(* ------------------------------ bounds -------------------------------- *)
MaxCols == 2        \* column counts 1..MaxCols
MaxOctaves == 1     \* octave counts 0..MaxOctaves
MaxActive == 2      \* non-empty cells in the grid
MaxLag == 130       \* a stored clock time is at most MaxLag ms in the past
MaxTimers == 1      \* timers pending when a subscriber may call stop()
MaxBeats == 4       \* beats per bar 1..MaxBeats
MaxPending == 1     \* outstanding visual callbacks when the scheduler wakes
MaxStarting == 1    \* start() calls awaiting ensureStarted()
MaxListeners == 2   \* subscribers of one event class
MaxContexts == 2    \* audio contexts made by one MetronomeAudio
MaxCommands == 2    \* onCommand calls counted in one recognition session

(* ------------------------- values and helpers ------------------------- *)
Null == "null"
Kinds == {"sine", "bell"}        \* soundType values
Pentatonic == <<"C", "D">>       \* createSequencer's scale option
StartOctave == 3
EditorOctaves == {0, 1}          \* octave counts a direct caller uses
Tempos == {120, 300}             \* tempo values; each divides 15000
Bpms == {120, 600}               \* metronome tempos; each divides 60000
PageBpms == {120, 240}           \* tempos the page's buttons reach
NoTimer == 0                     \* timerId / timeoutId / intervalId = null

\* the amounts in ms by which the audio clock advances between two calls
ClockSteps(a) == IF a = "transport" THEN {5} ELSE IF a = "engine" THEN {10}
                 ELSE IF a = "player" THEN {25} ELSE {250}

\* audioCtx.currentTime / audio.currentTime, the origin of the moving frame
currentTime == 0
\* audio.js: createAudioEngine's rowStaggerSec, in ms
rowStaggerMs == 1
\* transport.js: tickMs, lookaheadSec (in ms), and start()'s offset 0.01 s
tickMs == 25
lookaheadMs == 100
startOffsetMs == 10
\* main.js: uiEpoch, in a frame that moves with it, and the clamps
uiEpoch == 0
BPM_MIN == 30
BPM_MAX == 280
BEATS_MIN == 2
BEATS_MAX == 6
\* MetronomeEngine: #lookaheadMs, #scheduleAheadSec (in ms), setBeatsPerBar's
\* realignment 0.02 s
engineLookaheadMs == 25
scheduleAheadMs == 120
realignMs == 20

Max(a, b) == IF a >= b THEN a ELSE b
Min(a, b) == IF a <= b THEN a ELSE b

\* JS arrays are 0-based: element i of array s
At(s, i) == s[i + 1]

\* const buildNotes = () => ...: one label per octave and scale note
BuildNotes(nOct) ==
    [k \in 1..(nOct * Len(Pentatonic)) |->
        <<Pentatonic[((k - 1) % Len(Pentatonic)) + 1],
          StartOctave + ((k - 1) \div Len(Pentatonic))>>]

\* a grid that lacks its last row
MakeGridOneShort(rows, cols) == [r \in 1..(rows - 1) |-> [c \in 1..cols |-> Null]]

\* function makeEmptyGrid(rows, cols)
MakeEmptyGrid(rows, cols) == [r \in 1..rows |-> [c \in 1..cols |-> Null]]

\* function stepMs(): 16th notes, ((60 / bpm) / 4) * 1000
StepMs(tempo) == 15000 \div tempo

\* row.slice(0, n) padded with null up to n cells
ResizeRow(row, n) ==
    [c \in 1..n |-> IF c <= Len(row) THEN row[c] ELSE Null]

\* the hits of column `step`: rows with a non-empty cell, ascending
RECURSIVE HitsFrom(_, _, _, _)
HitsFrom(g, ns, step, row) ==
    IF row >= Len(ns) THEN <<>>
    ELSE LET soundType == At(At(g, row), step)
         IN  (IF soundType # Null
                THEN <<[row |-> row, note |-> At(ns, row), soundType |-> soundType]>>
                ELSE <<>>)
             \o HitsFrom(g, ns, step, row + 1)

\* a step without hits
NoHits(g, ns, step) == <<>>

Hits(g, ns, step) == HitsFrom(g, ns, step, 0)

\* an index that is not wrapped at the last column
AdvanceNoWrap(step, cols) == step + 1

\* an index that advances by two columns
AdvanceSkip(step, cols) == (step + 2) % cols

\* currentStep = (currentStep + 1) % numCols
AdvanceIndex(step, cols) == (step + 1) % cols

ActiveCells(g) ==
    Cardinality({rc \in (DOMAIN g) \X (1..MaxCols + 1) :
                    rc[2] \in DOMAIN g[rc[1]] /\ g[rc[1]][rc[2]] # Null})

\* window.setInterval / setTimeout return a handle no live timer has
FreshId(ts) == CHOOSE i \in 1..(Cardinality(ts) + 1) :
                  /\ \A t \in ts : t.id # i
                  /\ \A j \in 1..(i - 1) : \E t \in ts : t.id = j

ClearTimer(ts, id) == {t \in ts : t.id # id}

(* ------------------------------ events -------------------------------- *)
\* a step event that carries the index after the advance
StepEventLate(step, hits) == [type |-> "step", stepIndex |-> step + 1, hits |-> hits]

StepEvent(step, hits) == [type |-> "step", stepIndex |-> step, hits |-> hits]
StateEvent(p, step) == [type |-> "state", playing |-> p, stepIndex |-> step]
IndexEvent(step) == [type |-> "state", stepIndex |-> step]
GridEvent(g, ns, cols) == [type |-> "grid", grid |-> g, notes |-> ns, cols |-> cols]

\* audio.playNote({ note, type, rowIndex }): osc.start(startAt), where
\* startAt = ctx.currentTime + rowIndex * rowStaggerSec
PlayNote(hit) ==
    [type |-> "playNote", note |-> hit.note, soundType |-> hit.soundType,
     rowIndex |-> hit.row, startAt |-> currentTime + hit.row * rowStaggerMs]

\* seq.on("step", ({ stepIndex, hits }) => { for (const hit of hits) ... })
PlayHits(hits) == [i \in 1..Len(hits) |-> PlayNote(hits[i])]

(* ---------------------- sequencer.js: operations ---------------------- *)
NoRun == /\ runStart' = 0
         /\ runSeen' = <<>>

\* a call that is no wake; "primed" (the engine under test was started and
\* its scheduler has not run since) stays until the scheduler's next wake
NoWake == /\ wakeFrom' = (IF wakeFrom = "primed" THEN "primed" ELSE "none")
          /\ wakeSteps' = 0

\* one more stepOnce in the current run of consecutive stepOnce calls
RunStep ==
    IF Len(runSeen) >= numCols
      THEN /\ runStart' = currentStep
           /\ runSeen' = <<currentStep>>
      ELSE /\ runStart' = (IF runSeen = <<>> THEN currentStep ELSE runStart)
           /\ runSeen' = Append(runSeen, currentStep)

\* the state a call on the sequencer of sequencer.js leaves alone
SeqFrame == UNCHANGED <<app, speechVars, listeners, contexts, trVars, engVars, pageVars, pc, wakeVars>>

\* the pages whose sequencer steps on its own interval
SelfTimed == app \in {"sequencer", "bus"}

(* ---- sequencer.js: listeners, on, emit ---- *)
Classes == {"step", "state", "grid"}
Subscribers == {"a", "b"}        \* the handlers a caller passes to on()

Range(seq) == {seq[i] : i \in DOMAIN seq}

\* a registry that is an array: push adds the handler once more
ListPush(seq, fn) == Append(seq, fn)

\* listeners[type].add(fn) of a Set: a handler it holds stays where it is,
\* a new one comes last
SetAdd(seq, fn) == IF fn \in Range(seq) THEN seq ELSE Append(seq, fn)

\* listeners[type].delete(fn)
SetDelete(seq, fn) == SelectSeq(seq, LAMBDA x : x # fn)

\* const emit = (type, payload) => { for (const fn of listeners[type])
\* fn(payload); }: the calls it makes, in the Set's insertion order
Emit(type, payload) ==
    [i \in DOMAIN listeners[type] |-> [sub |-> listeners[type][i], payload |-> payload]]

\* const on = (type, fn) => { listeners[type].add(fn); ... }
On(type, fn) ==
    /\ app = "bus"
    /\ fn \in Range(listeners[type]) \/ Len(listeners[type]) < MaxListeners
    /\ listeners' = [listeners EXCEPT ![type] = SetAdd(@, fn)]
    /\ lastCall' = "on"
    /\ emitted' = <<[type |-> "on", class |-> type, sub |-> fn, before |-> listeners[type]]>>
    /\ UNCHANGED <<app, speechVars, contexts, seqVars, trVars, engVars, pageVars, timers, pc, runVars, wakeVars>>

\* the function on(type, fn) returned: () => listeners[type].delete(fn)
Off(type, fn) ==
    /\ app = "bus"
    /\ listeners' = [listeners EXCEPT ![type] = SetDelete(@, fn)]
    /\ lastCall' = "off"
    /\ emitted' = <<[type |-> "off", class |-> type, sub |-> fn, before |-> listeners[type]]>>
    /\ UNCHANGED <<app, speechVars, contexts, seqVars, trVars, engVars, pageVars, timers, pc, runVars, wakeVars>>

\* timerId = window.setInterval(stepOnce, stepMs())
StartInterval(ts, tempo) ==
    ts \cup {[id |-> FreshId(ts), handler |-> "stepOnce", ms |-> StepMs(tempo)]}

\* const start = () => ...
Start ==
    /\ SelfTimed
    /\ lastCall' = "start"
    /\ NoRun
    /\ IF playing
         THEN /\ emitted' = <<>>
              /\ UNCHANGED <<seqVars, timers>>
         ELSE /\ playing' = TRUE
              /\ emitted' = <<StateEvent(TRUE, currentStep)>>
              /\ timerId' = FreshId(timers)
              /\ timers' = StartInterval(timers, bpm)
              /\ UNCHANGED <<numCols, numOctaves, bpm, currentStep, notes, grid>>
    /\ SeqFrame

\* const stop = () => ...
Stop ==
    /\ SelfTimed
    /\ lastCall' = "stop"
    /\ NoRun
    /\ IF ~playing
         THEN /\ emitted' = <<>>
              /\ UNCHANGED <<seqVars, timers>>
         ELSE /\ playing' = FALSE
              /\ timers' = ClearTimer(timers, timerId)
              /\ timerId' = NoTimer
              /\ currentStep' = 0
              /\ emitted' = <<StateEvent(FALSE, 0)>>
              /\ UNCHANGED <<numCols, numOctaves, bpm, notes, grid>>
    /\ SeqFrame

\* const togglePlay = () => (playing ? stop() : start())
TogglePlay ==
    /\ app = "sequencer"
    /\ lastCall' = "togglePlay"
    /\ NoRun
    /\ IF playing
         THEN /\ playing' = FALSE
              /\ timers' = ClearTimer(timers, timerId)
              /\ timerId' = NoTimer
              /\ currentStep' = 0
              /\ emitted' = <<StateEvent(FALSE, 0)>>
         ELSE /\ playing' = TRUE
              /\ emitted' = <<StateEvent(TRUE, currentStep)>>
              /\ timerId' = FreshId(timers)
              /\ timers' = StartInterval(timers, bpm)
              /\ UNCHANGED currentStep
    /\ UNCHANGED <<numCols, numOctaves, bpm, notes, grid>>
    /\ SeqFrame

\* const setTempo = (newTempo) => ...: while playing, stop() then start()
SetTempo(newTempo) ==
    /\ app = "sequencer"
    /\ lastCall' = "setTempo"
    /\ NoRun
    /\ bpm' = newTempo
    /\ IF playing
         THEN LET cleared == ClearTimer(timers, timerId)
              IN  /\ currentStep' = 0
                  /\ emitted' = <<StateEvent(FALSE, 0), StateEvent(TRUE, 0)>>
                  /\ timerId' = FreshId(cleared)
                  /\ timers' = StartInterval(cleared, newTempo)
         ELSE /\ emitted' = <<>>
              /\ UNCHANGED <<currentStep, timerId, timers>>
    /\ UNCHANGED <<numCols, numOctaves, playing, notes, grid>>
    /\ SeqFrame

\* a snapshot whose rows are the sequencer's own row arrays, as
\* grid.map((row) => row) would return
RowsAliased(level) == level = "row"

\* getGrid = () => grid.map((row) => [...row]): is the array at `level`
\* ("outer", "row") of the result one of the sequencer's own arrays? map
\* makes a new outer array and each [...row] a new row array
GetGridAliased(level) == FALSE

\* notes: [...notes] in getState and in the grid payloads: a new array of
\* strings
NotesAliased == FALSE

Targets == {"cell", "row", "note"}

\* a caller takes getGrid() and getState().notes (or the grid and notes of
\* a grid event payload, made by the same expressions) and writes into
\* what it got: snapshot[r][c] = v, snapshot[r] = [], notes[r] = "X0"; the
\* write reaches the sequencer's grid or notes where the written array is
\* the sequencer's own
MutateSnapshot(target, r, c, v) ==
    /\ app = "editor"
    /\ pc = "idle"
    /\ r < Len(grid)
    /\ c < Len(At(grid, r))
    /\ v # At(At(grid, r), c)
    /\ grid' = IF target = "cell" /\ GetGridAliased("row")
                 THEN [grid EXCEPT ![r + 1][c + 1] = v]
               ELSE IF target = "row" /\ GetGridAliased("outer")
                 THEN [grid EXCEPT ![r + 1] = <<>>]
               ELSE grid
    /\ notes' = IF target = "note" /\ NotesAliased
                  THEN [notes EXCEPT ![r + 1] = <<"X", 0>>]
                ELSE notes
    /\ emitted' = <<[type |-> "snapshot", target |-> target,
                     grid |-> grid, notes |-> notes]>>
    /\ lastCall' = "mutateSnapshot"
    /\ NoRun
    /\ UNCHANGED <<numCols, numOctaves, bpm, currentStep, playing, timerId, timers>>
    /\ SeqFrame

\* const setColumns = (newCols) => ...
SetColumns(newCols) ==
    /\ app \in {"sequencer", "transport", "editor"}
    /\ pc = "idle"
    /\ lastCall' = "setColumns"
    /\ NoRun
    /\ numCols' = newCols
    /\ grid' = [r \in DOMAIN grid |-> ResizeRow(grid[r], newCols)]
    /\ currentStep' = 0
    /\ emitted' = <<GridEvent(grid', notes, newCols), StateEvent(playing, 0)>>
    /\ UNCHANGED <<numOctaves, bpm, playing, timerId, notes, timers>>
    /\ SeqFrame

\* const setOctaves = (newOctaves) => ...
SetOctaves(newOctaves) ==
    /\ app \in {"sequencer", "editor", "bus"}
    /\ app \in {"editor", "bus"} => newOctaves \in EditorOctaves
    /\ lastCall' = "setOctaves"
    /\ NoRun
    /\ numOctaves' = newOctaves
    /\ notes' = BuildNotes(newOctaves)
    /\ grid' = MakeEmptyGrid(Len(notes'), numCols)
    /\ currentStep' = 0
    /\ emitted' = <<GridEvent(grid', notes', numCols), StateEvent(playing, 0)>>
    /\ UNCHANGED <<numCols, bpm, playing, timerId, timers>>
    /\ SeqFrame

\* a toggle that writes the sound type whatever the cell holds
Overwritten(prev, soundType) == soundType

\* grid[row][col] = prev ? null : soundType
Toggled(prev, soundType) == IF prev # Null THEN Null ELSE soundType

\* cells[col] = v on a JS array: an index at or beyond the length lengthens
\* the array, and the cells in between are holes, which read as undefined
\* (empty to every reader of the grid)
SetCell(cells, col, v) ==
    [c \in 1..Max(Len(cells), col + 1) |->
        IF c = col + 1 THEN v ELSE IF c <= Len(cells) THEN cells[c] ELSE Null]

\* const toggleCell = ({ row, col, soundType }) => ..., with row >= 0 and
\* col >= 0. For a row the grid has not, grid[row] is undefined:
\* grid[row]?.[col] ?? null is null, and grid[row][col] = ... throws a
\* TypeError before anything is emitted. The pages toggle the cells they
\* show; the editor calls toggleCell with any row and column.
ToggleCell(row, col, soundType) ==
    /\ app \in {"sequencer", "player", "editor"}
    /\ pc = "idle"
    /\ app # "editor" => (row < Len(grid) /\ col < numCols)
    /\ IF row >= Len(grid)
         THEN /\ grid' = grid
              /\ emitted' = <<[type |-> "throw"]>>
         ELSE LET cells == At(grid, row)
                  prev == IF col < Len(cells) THEN At(cells, col) ELSE Null
                  new == Toggled(prev, soundType)
              IN  /\ new # Null => ActiveCells(grid) < MaxActive
                  /\ grid' = [grid EXCEPT ![row + 1] = SetCell(cells, col, new)]
                  /\ emitted' = <<GridEvent(grid', notes, numCols),
                                  [type |-> "return", value |-> new]>>
    /\ lastCall' = "toggleCell"
    /\ NoRun
    /\ UNCHANGED <<numCols, numOctaves, bpm, currentStep, playing, timerId, notes, timers>>
    /\ SeqFrame

\* const stepOnce = () => ..., the handler of the interval timer. emit("step")
\* calls the subscribers, and one of them may call stop() (sub = "stop")
\* before stepOnce advances the index and emits "state".
StepOnce(sub) ==
    /\ SelfTimed
    /\ sub = "stop" => app = "sequencer"
    /\ \E t \in timers : t.handler = "stepOnce"
    /\ lastCall' = "stepOnce"
    /\ LET stopped == (sub = "stop")
           index == IF stopped THEN 0 ELSE currentStep
       IN  /\ playing' = (playing /\ ~stopped)
           /\ timers' = (IF stopped THEN ClearTimer(timers, timerId) ELSE timers)
           /\ timerId' = (IF stopped THEN NoTimer ELSE timerId)
           /\ currentStep' = AdvanceIndex(index, numCols)
           /\ emitted' = <<StepEvent(currentStep, Hits(grid, notes, currentStep))>>
                         \o (IF stopped THEN <<StateEvent(FALSE, 0)>> ELSE <<>>)
                         \o <<StateEvent(playing', currentStep')>>
           /\ IF stopped THEN NoRun ELSE RunStep
    /\ UNCHANGED <<numCols, numOctaves, bpm, notes, grid>>
    /\ SeqFrame

(* ------------- transport.js (README.md): createTransport --------------- *)
\* a step twice as long as the tempo's, and a step that ignores the tempo
DoubleStep == 2 * StepMs(bpm)
FixedStep == StepMs(120)

\* the pages that hold a transport
OnTransport == app \in {"transport", "player"}

\* const stepSec = () => (60 / sequencer.getState().tempo) / 4, in ms
stepSec == StepMs(bpm)

\* the state a call on the transport leaves alone
TrFrame == UNCHANGED <<app, speechVars, listeners, contexts, numCols, numOctaves, playing, timerId, notes, grid, engVars,
                        pageVars>>

\* sequencer.setTempo(v) of the sequencer the transport drives: tempo is data
TrSetTempo(newTempo) ==
    /\ app = "transport"
    /\ pc = "idle"
    /\ lastCall' = "setTempo"
    /\ emitted' = <<>>
    /\ bpm' = newTempo
    /\ tempoConst' = (tempoConst /\ newTempo = bpm)
    /\ NoRun
    /\ UNCHANGED <<currentStep, trVars, timers, pc, wakeFrom, wakeSteps>>
    /\ TrFrame

\* a start() that keeps the next step's time it finds
StartBodyKept ==
    /\ trPlaying' = TRUE
    /\ pc' = "pump"
    /\ wakeFrom' = "start"
    /\ wakeSteps' = 0
    /\ tempoConst' = TRUE
    /\ emitted' = <<>>
    /\ UNCHANGED <<nextStepTime, timeoutId, timers, currentStep, runVars>>

\* start(), after its guard: playing = true; nextStepTime = currentTime + 0.01;
\* pump() is entered
StartBody ==
    /\ trPlaying' = TRUE
    /\ nextStepTime' = currentTime + startOffsetMs
    /\ pc' = "pump"
    /\ wakeFrom' = "start"
    /\ wakeSteps' = 0
    /\ tempoConst' = TRUE
    /\ emitted' = <<>>
    /\ UNCHANGED <<timeoutId, timers, currentStep, runVars>>

\* sequencer.reset() of the sequencer the transport drives: the index
\* returns to 0, the grid is not touched, "state" is emitted
ResetIndex(step) == 0

\* stop(), after its guard: the timeout is cleared, sequencer.reset()
StopBody ==
    /\ trPlaying' = FALSE
    /\ timers' = (IF timeoutId # NoTimer THEN ClearTimer(timers, timeoutId) ELSE timers)
    /\ timeoutId' = NoTimer
    /\ currentStep' = ResetIndex(currentStep)
    /\ emitted' = <<IndexEvent(currentStep')>>
    /\ NoRun
    /\ NoWake
    /\ UNCHANGED <<nextStepTime, pc, tempoConst>>

\* a guard that lets the state event out before it returns
ReturnsWithEvent ==
    /\ emitted' = <<IndexEvent(currentStep)>>
    /\ NoWake
    /\ UNCHANGED <<trVars, timers, pc, currentStep, runVars, tempoConst>>

\* a call that returns at its guard
Returns ==
    /\ emitted' = <<>>
    /\ NoWake
    /\ UNCHANGED <<trVars, timers, pc, currentStep, runVars, tempoConst>>

\* const start = () => ...
TrStart ==
    /\ OnTransport
    /\ pc = "idle"
    /\ lastCall' = "start"
    /\ IF trPlaying THEN Returns ELSE StartBody
    /\ UNCHANGED bpm
    /\ TrFrame

\* const stop = () => ...
TrStop ==
    /\ OnTransport
    /\ pc = "idle"
    /\ lastCall' = "stop"
    /\ IF ~trPlaying THEN Returns ELSE StopBody
    /\ UNCHANGED bpm
    /\ TrFrame

\* const toggle = () => (playing ? stop() : start())
TrToggle ==
    /\ app = "transport"
    /\ pc = "idle"
    /\ lastCall' = "toggle"
    /\ IF trPlaying THEN StopBody ELSE StartBody
    /\ UNCHANGED bpm
    /\ TrFrame

\* the page's play button (and KeyP), up to await audio.ensureRunning()
playBtnClick ==
    /\ app = "player"
    /\ pc = "idle"
    /\ starting < MaxStarting
    /\ lastCall' = "playBtn"
    /\ emitted' = <<>>
    /\ starting' = starting + 1
    /\ NoWake
    /\ UNCHANGED <<app, speechVars, listeners, contexts, seqVars, trVars, engVars, page, pending, activeIdx, lit,
                   dots, uiRunning, timers, pc, runVars, tempoConst>>

\* the play handler after the await: animateButton(playBtn); transport.start()
playBtnResume ==
    /\ app = "player"
    /\ pc = "idle"
    /\ starting > 0
    /\ lastCall' = "playBtn.resume"
    /\ starting' = starting - 1
    /\ IF trPlaying THEN Returns ELSE StartBody
    /\ UNCHANGED <<app, speechVars, listeners, contexts, seqVars, engVars, page, pending, activeIdx, lit,
                   dots, uiRunning>>

\* the timeout fires: pump() runs up to its loop
PumpWake ==
    /\ OnTransport
    /\ pc = "idle"
    /\ \E t \in timers :
          /\ t.handler = "pump"
          /\ timers' = timers \ {t}
    /\ lastCall' = "pump"
    /\ emitted' = <<>>
    /\ IF ~trPlaying
         THEN /\ NoWake
              /\ UNCHANGED pc
         ELSE /\ pc' = "pump"
              /\ wakeFrom' = "timer"
              /\ wakeSteps' = 0
    /\ UNCHANGED <<trVars, bpm, currentStep, runVars, tempoConst>>
    /\ TrFrame

\* one turn of pump's loop: sequencer.stepOnce(); nextStepTime += stepSec().
\* stepOnce delivers the step event, and a subscriber of it may call the
\* transport's stop() (sub = "stop") before stepOnce advances the index.
PumpStep(sub) ==
    /\ OnTransport
    /\ pc = "pump"
    /\ nextStepTime < currentTime + lookaheadMs
    /\ sub = "stop" => (app = "transport" /\ trPlaying /\ Cardinality(timers) < MaxTimers)
    /\ LET stopped == (sub = "stop")
           index == IF stopped THEN ResetIndex(currentStep) ELSE currentStep
       IN  /\ currentStep' = AdvanceIndex(index, numCols)
           /\ emitted' = <<StepEvent(currentStep, Hits(grid, notes, currentStep))>>
                         \o (IF app = "player" THEN PlayHits(Hits(grid, notes, currentStep))
                             ELSE <<>>)
                         \o (IF stopped THEN <<IndexEvent(index)>> ELSE <<>>)
                         \o <<IndexEvent(currentStep')>>
           /\ trPlaying' = (trPlaying /\ ~stopped)
           /\ timers' = (IF stopped /\ timeoutId # NoTimer
                           THEN ClearTimer(timers, timeoutId) ELSE timers)
           /\ timeoutId' = (IF stopped THEN NoTimer ELSE timeoutId)
           /\ NoRun
    /\ nextStepTime' = nextStepTime + stepSec
    /\ wakeSteps' = wakeSteps + 1
    /\ lastCall' = "stepOnce"
    /\ UNCHANGED <<bpm, pc, wakeFrom, tempoConst>>
    /\ TrFrame

\* a pump whose loop ends after one step, wherever the clock is
PumpEndEarly ==
    /\ OnTransport
    /\ pc = "pump"
    /\ wakeSteps >= 1 \/ ~(nextStepTime < currentTime + lookaheadMs)
    /\ timeoutId' = FreshId(timers)
    /\ timers' = timers \cup {[id |-> FreshId(timers), handler |-> "pump", ms |-> tickMs]}
    /\ pc' = "idle"
    /\ lastCall' = "pump.end"
    /\ emitted' = <<>>
    /\ UNCHANGED <<trPlaying, nextStepTime, bpm, currentStep, runVars, wakeVars>>
    /\ TrFrame

\* a pump that returns without arming its timeout
PumpEndUnarmed ==
    /\ OnTransport
    /\ pc = "pump"
    /\ ~(nextStepTime < currentTime + lookaheadMs)
    /\ pc' = "idle"
    /\ lastCall' = "pump.end"
    /\ emitted' = <<>>
    /\ UNCHANGED <<trVars, timers, bpm, currentStep, runVars, wakeVars>>
    /\ TrFrame

\* pump's loop is over: timeoutId = window.setTimeout(pump, tickMs)
PumpEnd ==
    /\ OnTransport
    /\ pc = "pump"
    /\ ~(nextStepTime < currentTime + lookaheadMs)
    /\ timeoutId' = FreshId(timers)
    /\ timers' = timers \cup {[id |-> FreshId(timers), handler |-> "pump", ms |-> tickMs]}
    /\ pc' = "idle"
    /\ lastCall' = "pump.end"
    /\ emitted' = <<>>
    /\ UNCHANGED <<trPlaying, nextStepTime, bpm, currentStep, runVars, wakeVars>>
    /\ TrFrame

(* ------------------------ the audio clock ------------------------------ *)
\* a stored clock time after the clock has advanced by d ms. A time that is
\* read again only after start() has set it anew (the transport or engine is
\* stopped) is kept at MaxLag in the past.
Shift(t, d, live) == IF live THEN t - d ELSE currentTime - MaxLag

ClockAdvance(d) ==
    /\ app \in {"transport", "player", "engine", "metronome"}
    /\ pc = "idle"
    /\ d \in ClockSteps(app)
    /\ app \in {"engine", "metronome"} => contexts > 0
    /\ trPlaying => nextStepTime - d >= currentTime - MaxLag
    /\ isRunning => nextNoteTime - d >= currentTime - MaxLag
    /\ nextStepTime' = (IF OnTransport THEN Shift(nextStepTime, d, trPlaying)
                        ELSE nextStepTime)
    /\ nextNoteTime' = (IF app \in {"engine", "metronome"} THEN Shift(nextNoteTime, d, isRunning)
                        ELSE nextNoteTime)
    /\ lastCall' = "clock"
    /\ emitted' = <<>>
    /\ NoWake
    /\ UNCHANGED <<app, speechVars, listeners, contexts, seqVars, trPlaying, timeoutId, engine, engineBpm, beatsPerBar,
                   beatIndex, isRunning, intervalId, pageVars, timers, pc, runVars,
                   tempoConst>>

(* ------------------------- MetronomeAudio ------------------------------ *)
\* an ensureStarted() that makes a context on every call
AlwaysNeeds(made) == TRUE

\* ensureStarted(): if (!this.#ctx), of an audio that has made `made`
\* contexts; no page and no engine calls close()
NeedsContext(made) == made = 0

\* async ensureStarted(), up to its await: the context, the master gain
\* and the noise buffers are made when there is no context
ensureStarted ==
    /\ NeedsContext(contexts) => contexts < MaxContexts
    /\ contexts' = IF NeedsContext(contexts) THEN contexts + 1 ELSE contexts

\* tickAt(timeSec, opts): if (!this.#ctx) return; else the tick's sources
\* are made and started at timeSec
TickAt(timeSec, accent) ==
    [type |-> "tickAt", timeSec |-> timeSec, accent |-> accent, sounds |-> contexts > 0]

(* ----------------------- MetronomeEngine ------------------------------- *)
\* const secondsPerBeat = 60.0 / this.#bpm, in ms
secondsPerBeat == 60000 \div engineBpm

\* start()'s priming of nextNoteTime: now + 0.05 (0.03 in the 4-beat engine)
PrimeMs == IF engine = "part_007" THEN 30 ELSE 50

\* the length of the beat cycle: #beatsPerBar, 4 in the 4-beat engine
CycleLength == IF engine = "part_007" THEN 4 ELSE beatsPerBar

\* #scheduleBeat: const dotIdx = this.#beatIndex % this.#beatsPerBar
\* (#scheduleBeatAt: const dotIdx = beatIdx)
DotIdx == IF engine = "part_007" THEN beatIndex ELSE beatIndex % beatsPerBar

\* an accent on the second beat
AccentOnSecond(dotIdx) == (dotIdx = 1)

\* const isAccent = dotIdx === 0
IsAccent(dotIdx) == (dotIdx = 0)

\* whenPerfMs - performance.now(): (timeSec - currentTime) * 1000, which
\* #scheduleBeatAt clamps with Math.max(0, deltaMs)
PerfDelay(timeSec) ==
    IF engine = "part_007" THEN Max(0, timeSec - currentTime) ELSE timeSec - currentTime

\* setBpm(bpm)
EngineSetBpm(b) ==
    /\ engineBpm' = b
    /\ UNCHANGED <<beatsPerBar, beatIndex, isRunning, intervalId, nextNoteTime, timers>>

\* a change of beats that never resets the phase
PhaseKept(resetPhase, index) == index

\* setBeatsPerBar: if (resetPhase) { this.#beatIndex = 0; ... }
PhaseAfter(resetPhase, index) == IF resetPhase THEN 0 ELSE index

\* setBeatsPerBar(n, { resetPhase = true } = {})
EngineSetBeatsPerBar(n, resetPhase) ==
    /\ beatsPerBar' = n
    /\ beatIndex' = PhaseAfter(resetPhase, beatIndex)
    /\ nextNoteTime' = (IF resetPhase /\ isRunning THEN currentTime + realignMs
                        ELSE nextNoteTime)
    /\ UNCHANGED <<engineBpm, isRunning, intervalId, timers>>

\* a start() without its guard: the phase and the next beat's time are set
\* anew on a running engine
EngineRestart ==
    /\ isRunning' = TRUE
    /\ beatIndex' = 0
    /\ nextNoteTime' = currentTime + PrimeMs
    /\ IF isRunning
         THEN UNCHANGED <<intervalId, timers>>
         ELSE /\ intervalId' = FreshId(timers)
              /\ timers' = timers \cup {[id |-> FreshId(timers), handler |-> "scheduler",
                                         ms |-> engineLookaheadMs]}
    /\ UNCHANGED <<engineBpm, beatsPerBar>>

\* a start() that keeps the beat index it finds
EngineResume ==
    /\ IF isRunning
         THEN UNCHANGED <<isRunning, nextNoteTime, intervalId, timers>>
         ELSE /\ isRunning' = TRUE
              /\ nextNoteTime' = currentTime + PrimeMs
              /\ intervalId' = FreshId(timers)
              /\ timers' = timers \cup {[id |-> FreshId(timers), handler |-> "scheduler",
                                         ms |-> engineLookaheadMs]}
    /\ UNCHANGED <<engineBpm, beatsPerBar, beatIndex>>

\* start()
EngineStart ==
    /\ IF isRunning
         THEN UNCHANGED <<isRunning, beatIndex, nextNoteTime, intervalId, timers>>
         ELSE /\ isRunning' = TRUE
              /\ beatIndex' = 0
              /\ nextNoteTime' = currentTime + PrimeMs
              /\ intervalId' = FreshId(timers)
              /\ timers' = timers \cup {[id |-> FreshId(timers), handler |-> "scheduler",
                                         ms |-> engineLookaheadMs]}
    /\ UNCHANGED <<engineBpm, beatsPerBar>>

\* stop()
EngineStop ==
    /\ IF ~isRunning
         THEN UNCHANGED <<isRunning, intervalId, timers>>
         ELSE /\ isRunning' = FALSE
              /\ timers' = (IF intervalId # NoTimer THEN ClearTimer(timers, intervalId)
                            ELSE timers)
              /\ intervalId' = NoTimer
    /\ UNCHANGED <<engineBpm, beatsPerBar, beatIndex, nextNoteTime>>

\* the state a call on the engine, made by a test of the engine, leaves alone
EngFrame == UNCHANGED <<app, speechVars, listeners, contexts, seqVars, trVars, engine, pageVars, pc, runVars>>

EngSetBpm(b) ==
    /\ app = "engine"
    /\ pc = "idle"
    /\ lastCall' = "setBpm"
    /\ emitted' = <<>>
    /\ EngineSetBpm(b)
    /\ tempoConst' = (tempoConst /\ b = engineBpm)
    /\ NoWake
    /\ EngFrame

EngSetBeatsPerBar(n, resetPhase) ==
    /\ app = "engine"
    /\ engine = "part_009"
    /\ pc = "idle"
    /\ lastCall' = "setBeatsPerBar"
    /\ emitted' = <<[type |-> "args", n |-> n, resetPhase |-> resetPhase]>>
    /\ EngineSetBeatsPerBar(n, resetPhase)
    /\ NoWake
    /\ UNCHANGED tempoConst
    /\ EngFrame

\* audio.ensureStarted(), called by the engine's user
EngEnsureStarted ==
    /\ app = "engine"
    /\ pc = "idle"
    /\ lastCall' = "ensureStarted"
    /\ emitted' = <<>>
    /\ ensureStarted
    /\ NoWake
    /\ UNCHANGED <<app, speechVars, listeners, seqVars, trVars, engVars, pageVars, timers, pc, runVars,
                   tempoConst>>

EngStart ==
    /\ app = "engine"
    /\ pc = "idle"
    /\ lastCall' = "start"
    /\ emitted' = <<>>
    /\ EngineStart
    /\ tempoConst' = (isRunning => tempoConst)
    /\ wakeFrom' = (IF isRunning /\ wakeFrom # "primed" THEN "none" ELSE "primed")
    /\ wakeSteps' = 0
    /\ EngFrame

EngStop ==
    /\ app = "engine"
    /\ pc = "idle"
    /\ lastCall' = "stop"
    /\ emitted' = <<>>
    /\ EngineStop
    /\ NoWake
    /\ UNCHANGED tempoConst
    /\ EngFrame

\* the interval fires: #scheduler() runs up to its loop. On the metronome
\* page a wake waits while MaxPending visual callbacks are outstanding.
SchedulerWake ==
    /\ app \in {"engine", "metronome"}
    /\ pc = "idle"
    /\ \E t \in timers : t.handler = "scheduler"
    /\ app = "metronome" => Cardinality(pending) < MaxPending
    /\ lastCall' = "scheduler"
    /\ emitted' = <<>>
    /\ IF ~isRunning
         THEN /\ NoWake
              /\ UNCHANGED pc
         ELSE /\ pc' = "scheduler"
              /\ wakeFrom' = (IF wakeFrom = "primed" THEN "first" ELSE "timer")
              /\ wakeSteps' = 0
    /\ UNCHANGED <<app, speechVars, listeners, contexts, seqVars, trVars, engVars, pageVars, timers, runVars, tempoConst>>

\* the handler main.js gives engine.onBeat: a timeout that lights the dot
BeatTimeout(dotIdx) ==
    [stage |-> "show", dotIdx |-> dotIdx, scheduledEpoch |-> uiEpoch, stale |-> FALSE]

\* one turn of #scheduler's loop: #scheduleBeat(nextNoteTime), which ticks
\* the audio and calls onBeat, then nextNoteTime += secondsPerBeat. A
\* subscriber given to onBeat by a test of the engine may call stop()
\* (sub = "stop"); the page's handler schedules the visual callback.
SchedulerBeat(sub) ==
    /\ app \in {"engine", "metronome"}
    /\ pc = "scheduler"
    /\ nextNoteTime < currentTime + scheduleAheadMs
    /\ sub = "stop" => (app = "engine" /\ isRunning)
    /\ emitted' = <<TickAt(nextNoteTime, IsAccent(DotIdx)),
                    [type |-> "onBeat", dotIdx |-> DotIdx, isAccent |-> IsAccent(DotIdx),
                     delay |-> PerfDelay(nextNoteTime)]>>
    /\ pending' = (IF app = "metronome" THEN pending \cup {BeatTimeout(DotIdx)} ELSE pending)
    /\ isRunning' = (isRunning /\ sub # "stop")
    /\ timers' = (IF sub = "stop" /\ intervalId # NoTimer
                    THEN ClearTimer(timers, intervalId) ELSE timers)
    /\ intervalId' = (IF sub = "stop" THEN NoTimer ELSE intervalId)
    /\ beatIndex' = (beatIndex + 1) % CycleLength
    /\ nextNoteTime' = nextNoteTime + secondsPerBeat
    /\ wakeSteps' = wakeSteps + 1
    /\ lastCall' = "scheduleBeat"
    /\ UNCHANGED <<app, speechVars, listeners, contexts, seqVars, trVars, engine, engineBpm, beatsPerBar, page, activeIdx, lit,
                   dots, uiRunning, starting, pc, wakeFrom, runVars, tempoConst>>

\* #scheduler's loop is over
SchedulerEnd ==
    /\ app \in {"engine", "metronome"}
    /\ pc = "scheduler"
    /\ ~(nextNoteTime < currentTime + scheduleAheadMs)
    /\ pc' = "idle"
    /\ lastCall' = "scheduler.end"
    /\ emitted' = <<>>
    /\ UNCHANGED <<app, speechVars, listeners, contexts, seqVars, trVars, engVars, pageVars, timers, runVars, wakeVars>>

(* --------------------- main.js: the metronome page --------------------- *)
\* const clampInt = (n, min, max) => Math.max(min, Math.min(max, n | 0))
clampInt(n, min, max) == Max(min, Min(max, n))

\* const bumpUiEpoch = () => { uiEpoch += 1; }, which main.js has and the
\* page of part_005 has not: every outstanding callback's epoch falls
\* behind uiEpoch. The callbacks compare the two with !== only, so an epoch
\* that is behind is kept as uiEpoch - 1. A stop, a start or a change of
\* beats makes every outstanding callback stale, on either page.
Outdated(cb) ==
    [cb EXCEPT !.scheduledEpoch = IF page = "main.js" THEN uiEpoch - 1
                                  ELSE cb.scheduledEpoch,
               !.stale = TRUE]

bumpUiEpoch == pending' = {Outdated(cb) : cb \in pending}

\* a setRunning that disables the play button whatever it is given
setRunningOn(on) == uiRunning' = TRUE

\* MetronomeUI.setRunning(isRunning): playBtn.disabled = isRunning;
\* stopBtn.disabled = !isRunning
setRunning(on) == uiRunning' = on

playBtnDisabled == uiRunning
stopBtnDisabled == ~uiRunning

\* the state a handler of the page leaves alone
PageRest == UNCHANGED <<app, speechVars, listeners, seqVars, trVars, engine, page, pc, runVars>>
PageFrame == PageRest /\ UNCHANGED contexts

\* const applyBpm = (next) => ...
applyBpm(next) ==
    /\ app = "metronome"
    /\ pc = "idle"
    /\ lastCall' = "applyBpm"
    /\ emitted' = <<>>
    /\ EngineSetBpm(clampInt(next, BPM_MIN, BPM_MAX))
    /\ NoWake
    /\ UNCHANGED <<pending, activeIdx, lit, dots, uiRunning, starting, tempoConst>>
    /\ PageFrame

\* const applyBeats = (next) => ...
applyBeats(next) ==
    /\ app = "metronome"
    /\ page \in {"main.js", "part_005"}
    /\ pc = "idle"
    /\ lastCall' = "applyBeats"
    /\ emitted' = <<>>
    /\ bumpUiEpoch
    /\ dots' = clampInt(next, BEATS_MIN, BEATS_MAX)
    /\ EngineSetBeatsPerBar(clampInt(next, BEATS_MIN, BEATS_MAX), TRUE)
    /\ activeIdx' = -1
    /\ lit' = {}
    /\ NoWake
    /\ UNCHANGED <<uiRunning, starting, tempoConst>>
    /\ PageFrame

\* const start = async () => ..., up to await audio.ensureStarted(); the
\* play button takes the click while it is enabled
startClick ==
    /\ app = "metronome"
    /\ pc = "idle"
    /\ ~uiRunning
    /\ starting < MaxStarting
    /\ lastCall' = "start"
    /\ emitted' = <<>>
    /\ bumpUiEpoch
    /\ starting' = starting + 1
    /\ NoWake
    /\ UNCHANGED <<engineBpm, beatsPerBar, beatIndex, isRunning, intervalId, nextNoteTime,
                   timers, activeIdx, lit, dots, uiRunning, tempoConst>>
    /\ ensureStarted
    /\ PageRest

\* start, after the await: engine.start(); ui.setRunning(true)
startResume ==
    /\ app = "metronome"
    /\ pc = "idle"
    /\ starting > 0
    /\ lastCall' = "start.resume"
    /\ emitted' = <<>>
    /\ starting' = starting - 1
    /\ EngineStart
    /\ setRunning(TRUE)
    /\ NoWake
    /\ UNCHANGED <<pending, activeIdx, lit, dots, tempoConst>>
    /\ PageFrame

\* start, when the promise of audio.ensureStarted() rejects at the await:
\* the async function ends there
startReject ==
    /\ app = "metronome"
    /\ pc = "idle"
    /\ starting > 0
    /\ lastCall' = "start.reject"
    /\ emitted' = <<[type |-> "resume", ok |-> FALSE]>>
    /\ starting' = starting - 1
    /\ NoWake
    /\ UNCHANGED <<engineBpm, beatsPerBar, beatIndex, isRunning, intervalId, nextNoteTime,
                   timers, pending, activeIdx, lit, dots, uiRunning, tempoConst>>
    /\ PageFrame

\* const startFromKey = () => ..., which the keydown handler of the 4-beat
\* page calls for Space when the engine is not running: void
\* audio.ensureStarted(); engine.start(); ui.setRunning(true). The promise
\* is dropped, whether it resolves (resumes) or rejects.
startFromKey(resumes) ==
    /\ app = "metronome"
    /\ page = "part_005:1"
    /\ pc = "idle"
    /\ ~isRunning
    /\ lastCall' = "startFromKey"
    /\ emitted' = <<[type |-> "resume", ok |-> resumes]>>
    /\ EngineStart
    /\ setRunning(TRUE)
    /\ NoWake
    /\ UNCHANGED <<pending, activeIdx, lit, dots, starting, tempoConst>>
    /\ ensureStarted
    /\ PageRest

\* const stop = () => ...; the stop button takes the click while enabled
\* (on the 4-beat page Space calls it while the engine is running)
stop ==
    /\ app = "metronome"
    /\ pc = "idle"
    /\ ~stopBtnDisabled \/ (page = "part_005:1" /\ isRunning)
    /\ lastCall' = "stop"
    /\ emitted' = <<>>
    /\ bumpUiEpoch
    /\ EngineStop
    /\ setRunning(FALSE)
    /\ activeIdx' = -1
    /\ lit' = {}
    /\ NoWake
    /\ UNCHANGED <<dots, starting, tempoConst>>
    /\ PageFrame

\* main.js discards a callback whose epoch is not uiEpoch; part_005's page
\* has no such test
Discards(cb) == page = "main.js" /\ cb.scheduledEpoch # uiEpoch

\* a setActiveDot that only adds the class to the dot
LitAdded(idx) == lit \cup ({idx} \cap 0..(dots - 1))

\* ui.setActiveDot(idx): the dots with the class is-active afterwards
LitAfterSet(idx) == IF idx = activeIdx THEN lit ELSE {idx} \cap 0..(dots - 1)

\* a visual callback fires. "show": ui.setActiveDot(dotIdx), and the timeout
\* that clears the dots is set; "clear": if (engine.isRunning) ui.resetDots()
TimeoutFire(cb) ==
    /\ app = "metronome"
    /\ pc = "idle"
    /\ cb \in pending
    /\ lastCall' = "timeout"
    /\ LET updates == ~Discards(cb) /\ (cb.stage = "clear" => isRunning)
       IN  /\ emitted' = <<[type |-> "dots", stage |-> cb.stage, stale |-> cb.stale,
                            dotIdx |-> cb.dotIdx, updated |-> updates]>>
           /\ pending' = (pending \ {cb}) \cup
                         (IF cb.stage = "show" /\ ~Discards(cb)
                            THEN {[cb EXCEPT !.stage = "clear", !.dotIdx = -1]} ELSE {})
           /\ activeIdx' = (IF ~updates THEN activeIdx
                            ELSE IF cb.stage = "show" THEN cb.dotIdx ELSE -1)
           /\ lit' = (IF ~updates THEN lit
                       ELSE IF cb.stage = "show" THEN LitAfterSet(cb.dotIdx) ELSE {})
    /\ NoWake
    /\ UNCHANGED <<engineBpm, beatsPerBar, beatIndex, isRunning, intervalId, nextNoteTime,
                   timers, dots, uiRunning, starting, tempoConst>>
    /\ PageFrame

(* ------------------ speech.js: SpeechController.create ------------------ *)
\* what the recogniser may hear in one result batch, after normalize()
Transcripts == {"next", "stop listening", "next stop listening", "play"}

\* STOP_LISTENING_RE is tested first, then NEXT_RE
CommandOf(transcript) ==
    IF transcript \in {"stop listening", "next stop listening"} THEN "stop-listening"
    ELSE IF transcript \in {"next"} THEN "next"
    ELSE "none"

\* setSession(status): onSession is called when the status changes
SetSession(cur, status) ==
    IF cur = status THEN <<>> ELSE <<[type |-> "onSession", status |-> status]>>

\* a result handler that never sets the latch
NoLatch(fired, matched) == fired

\* firedThisSession after a result that holds a command
Latch(fired, matched) == fired \/ matched

\* an onend that never schedules a restart
NeverDue(en) == FALSE

\* onend schedules a restart when listening is enabled
RestartDue(en) == en

\* a restart timer's callback that never looks at enabled
NeverCanceled(en) == FALSE

\* the restart timer's callback gives up when listening was disabled
RestartCanceled(en) == ~en

\* recognition.start() throws InvalidStateError unless the recogniser is at rest
StartThrows(rec) == rec \in {"active", "ending"}

\* recognition.stop() ends a session in progress; onend follows
AfterRecStop(rec) == IF rec = "active" THEN "ending" ELSE rec

SpeechFrame == UNCHANGED <<app, listeners, contexts, seqVars, trVars, engVars, pageVars, timers, pc,
                           runVars, wakeVars>>

\* the body of start() after ensure(), for a controller that is not enabled
SpeechStartBody ==
    LET throws == StartThrows(recognition)
        s1 == SetSession(sessionStatus, "listening")
        s2 == IF throws THEN <<[type |-> "onError", code |-> "start_failed"]>>
                             \o SetSession("listening", "error")
              ELSE <<>>
    IN  /\ enabled' = TRUE
        /\ restartTimer' = FALSE
        /\ recognition' = IF throws THEN recognition ELSE "active"
        /\ sessionStatus' = IF throws THEN "error" ELSE "listening"
        /\ emitted' = <<[type |-> "onState", on |-> TRUE]>> \o s1
                      \o <<[type |-> "recognition.start", ok |-> ~throws]>> \o s2
        /\ UNCHANGED <<firedThisSession, sessionCommands, heard>>

\* a stop() that ends the session and clears the timer but leaves enabled set
SpeechStopSession ==
    /\ restartTimer' = FALSE
    /\ recognition' = AfterRecStop(recognition)
    /\ emitted' = <<[type |-> "recognition.stop"]>>
    /\ UNCHANGED <<enabled, sessionStatus, firedThisSession, sessionCommands, heard>>

\* the body of stop() for an enabled controller
SpeechStopBody ==
    /\ enabled' = FALSE
    /\ sessionStatus' = "idle"
    /\ restartTimer' = FALSE
    /\ recognition' = AfterRecStop(recognition)
    /\ emitted' = <<[type |-> "onState", on |-> FALSE]>> \o SetSession(sessionStatus, "idle")
                  \o <<[type |-> "recognition.stop"]>>
    /\ UNCHANGED <<firedThisSession, sessionCommands, heard>>

\* start(): ensure(); if (enabled) return; ...
SpeechStart ==
    /\ app = "speech"
    /\ lastCall' = "speech.start"
    /\ IF enabled
       THEN /\ emitted' = <<>>
            /\ UNCHANGED speechVars
       ELSE SpeechStartBody
    /\ SpeechFrame

\* stop(): if (!recognition || !enabled) return; ...
SpeechStop ==
    /\ app = "speech"
    /\ lastCall' = "speech.stop"
    /\ IF ~enabled
       THEN /\ emitted' = <<>>
            /\ UNCHANGED speechVars
       ELSE SpeechStopBody
    /\ SpeechFrame

\* toggle(): enabled ? stop() : start()
SpeechToggle ==
    /\ app = "speech"
    /\ lastCall' = "speech.toggle"
    /\ IF enabled THEN SpeechStopBody ELSE SpeechStartBody
    /\ SpeechFrame

\* recognition.onresult, with the transcript of the batch; the caller's
\* onCommand handler may call stop() (sub = "stop")
OnResult(transcript, sub) ==
    LET command == CommandOf(transcript)
        fires == ~firedThisSession /\ command # "none"
        stops == fires /\ sub = "stop" /\ enabled
        s1 == SetSession(sessionStatus, "listening")
    IN  /\ app = "speech"
        /\ recognition \in {"active", "ending"}
        /\ sub = "stop" => command = "stop-listening"
        /\ lastCall' = "onresult"
        /\ heard' = command
        /\ firedThisSession' = IF firedThisSession THEN TRUE
                               ELSE Latch(firedThisSession, command # "none")
        /\ sessionCommands' = IF fires THEN Min(sessionCommands + 1, MaxCommands)
                              ELSE sessionCommands
        /\ enabled' = IF stops THEN FALSE ELSE enabled
        /\ restartTimer' = IF stops THEN FALSE ELSE restartTimer
        /\ sessionStatus' = IF stops THEN "idle" ELSE "listening"
        /\ recognition' = IF fires THEN AfterRecStop(recognition) ELSE recognition
        /\ emitted' = s1
                      \o (IF fires THEN <<[type |-> "onCommand", command |-> command]>> ELSE <<>>)
                      \o (IF stops
                          THEN <<[type |-> "onState", on |-> FALSE],
                                 [type |-> "onSession", status |-> "idle"],
                                 [type |-> "recognition.stop"]>>
                          ELSE <<>>)
                      \o (IF fires THEN <<[type |-> "recognition.stop"]>> ELSE <<>>)
        /\ SpeechFrame

\* recognition.onerror: the session ends, onend follows
OnError(code) ==
    LET ignored == enabled /\ code = "no-speech"
    IN  /\ app = "speech"
        /\ recognition = "active"
        /\ lastCall' = "onerror"
        /\ recognition' = "ending"
        /\ heard' = code
        /\ sessionStatus' = IF ignored THEN sessionStatus ELSE "error"
        /\ emitted' = IF ignored THEN <<>>
                      ELSE <<[type |-> "onError", code |-> code]>>
                           \o SetSession(sessionStatus, "error")
        /\ UNCHANGED <<enabled, restartTimer, firedThisSession, sessionCommands>>
        /\ SpeechFrame

\* recognition.onend: the session is over (it ended by itself, after
\* recognition.stop(), or after an error)
OnEnd ==
    /\ app = "speech"
    /\ recognition \in {"active", "ending"}
    /\ lastCall' = "onend"
    /\ recognition' = "inactive"
    /\ firedThisSession' = FALSE
    /\ sessionCommands' = 0
    /\ IF RestartDue(enabled)
       THEN /\ restartTimer' = TRUE
            /\ emitted' = <<>>
            /\ UNCHANGED sessionStatus
       ELSE /\ emitted' = SetSession(sessionStatus, "idle")
            /\ sessionStatus' = "idle"
            /\ UNCHANGED restartTimer
    /\ UNCHANGED <<enabled, heard>>
    /\ SpeechFrame

\* the restart timer's callback, restartDelayMs after onend
RestartFire ==
    /\ app = "speech"
    /\ restartTimer
    /\ lastCall' = "restart"
    /\ restartTimer' = FALSE
    /\ IF RestartCanceled(enabled)
       THEN /\ emitted' = <<>>
            /\ UNCHANGED <<recognition, sessionStatus>>
       ELSE LET throws == StartThrows(recognition)
            IN  /\ recognition' = IF throws THEN recognition ELSE "active"
                /\ sessionStatus' = IF throws THEN "error" ELSE "listening"
                /\ emitted' = <<[type |-> "recognition.start", ok |-> ~throws]>>
                              \o (IF throws
                                  THEN <<[type |-> "onError", code |-> "restart_failed"]>>
                                       \o SetSession(sessionStatus, "error")
                                  ELSE SetSession(sessionStatus, "listening"))
    /\ UNCHANGED <<enabled, firedThisSession, sessionCommands, heard>>
    /\ SpeechFrame

SpeechNext ==
    \/ SpeechStart
    \/ SpeechStop
    \/ SpeechToggle
    \/ \E transcript \in Transcripts, sub \in {"none", "stop"} : OnResult(transcript, sub)
    \/ \E code \in {"no-speech", "network"} : OnError(code)
    \/ OnEnd
    \/ RestartFire

(* ------------------------------- Init --------------------------------- *)
\* createSequencer({ octaves, columns, tempo }): the sequencer after construction
InitSequencer(octaves) ==
    /\ numCols \in 1..MaxCols
    /\ numOctaves \in octaves
    /\ bpm \in Tempos
    /\ currentStep = 0
    /\ playing = FALSE
    /\ timerId = NoTimer
    /\ notes = BuildNotes(numOctaves)
    /\ grid = MakeEmptyGrid(Len(notes), numCols)
    /\ emitted = <<GridEvent(grid, notes, numCols), StateEvent(FALSE, 0)>>

\* createTransport({ sequencer, audioCtx }): playing = false, timeoutId = null,
\* nextStepTime = 0
InitTransport ==
    /\ trPlaying = FALSE
    /\ timeoutId = NoTimer
    /\ nextStepTime = 0

\* new MetronomeEngine(audio): the field initialisers
InitEngine(engines) ==
    /\ engine \in engines
    /\ engineBpm = 120
    /\ beatsPerBar = 4
    /\ beatIndex = 0
    /\ isRunning = FALSE
    /\ intervalId = NoTimer
    /\ nextNoteTime = 0

\* main.js at load: ui.setBeats(beatsPerBar); ui.setRunning(false). The
\* 4-beat page imports the 4-beat engine.
InitPage(pages) ==
    /\ page \in pages
    /\ (page = "part_005:1") = (app = "metronome" /\ engine = "part_007")
    /\ pending = {}
    /\ activeIdx = -1
    /\ lit = {}
    /\ dots = 4
    /\ uiRunning = FALSE
    /\ starting = 0

\* SpeechController.create(): recognition = null, enabled = false,
\* sessionStatus = "idle", restartTimer = null
InitSpeech ==
    /\ recognition = "none"
    /\ enabled = FALSE
    /\ sessionStatus = "idle"
    /\ restartTimer = FALSE
    /\ firedThisSession = FALSE
    /\ sessionCommands = 0
    /\ heard = "none"

\* one page is loaded: the sequencer with its own timer, the sequencer under
\* the lookahead transport (with its controls, or with the grid and the
\* audio), or the metronome engine
Init ==
    /\ app \in {"sequencer", "editor", "bus", "transport", "player", "engine", "metronome", "speech"}
    /\ listeners = [type \in Classes |-> <<>>]
    /\ contexts = 0
    /\ InitSequencer(IF app = "sequencer" THEN 0..MaxOctaves
                     ELSE IF app \in {"editor", "bus"} THEN EditorOctaves
                     ELSE IF app = "player" THEN 1..MaxOctaves ELSE {0})
    /\ app \in {"engine", "metronome", "speech"} => numCols = 1 /\ bpm = 120
    /\ app = "player" => numCols = 1
    /\ app = "editor" => bpm = 120
    /\ app = "bus" => numCols = 1 /\ bpm = 120
    /\ InitTransport
    /\ InitEngine(IF app = "engine" THEN {"part_007", "part_009"}
                  ELSE IF app = "metronome" THEN {"part_007", "part_009"} ELSE {"none"})
    /\ InitPage(IF app = "metronome" THEN {"main.js", "part_005", "part_005:1"}
                ELSE {"none"})
    /\ timers = {}
    /\ pc = "idle"
    /\ lastCall = "init"
    /\ runStart = 0
    /\ runSeen = <<>>
    /\ wakeFrom = "none"
    /\ wakeSteps = 0
    /\ tempoConst = TRUE
    /\ InitSpeech

Next ==
    \/ Start
    \/ Stop
    \/ TogglePlay
    \/ \E t \in Tempos : SetTempo(t)
    \/ \E n \in 1..MaxCols : SetColumns(n)
    \/ \E n \in 0..MaxOctaves : SetOctaves(n)
    \/ \E r \in 0..Len(grid), c \in 0..numCols, k \in Kinds : ToggleCell(r, c, k)
    \/ \E target \in Targets, r \in 0..Len(grid), c \in 0..numCols, v \in Kinds \cup {Null} :
          MutateSnapshot(target, r, c, v)
    \/ \E type \in Classes, fn \in Subscribers : On(type, fn)
    \/ \E type \in Classes, fn \in Subscribers : Off(type, fn)
    \/ \E sub \in {"none", "stop"} : StepOnce(sub)
    \/ \E t \in Tempos : TrSetTempo(t)
    \/ TrStart
    \/ TrStop
    \/ TrToggle
    \/ playBtnClick
    \/ playBtnResume
    \/ PumpWake
    \/ \E sub \in {"none", "stop"} : PumpStep(sub)
    \/ PumpEnd
    \/ \E d \in {5, 10, 25, 250} : ClockAdvance(d)
    \/ \E b \in Bpms : EngSetBpm(b)
    \/ \E n \in 1..MaxBeats, resetPhase \in BOOLEAN : EngSetBeatsPerBar(n, resetPhase)
    \/ EngEnsureStarted
    \/ EngStart
    \/ EngStop
    \/ SchedulerWake
    \/ \E sub \in {"none", "stop"} : SchedulerBeat(sub)
    \/ SchedulerEnd
    \/ \E b \in PageBpms : applyBpm(b)
    \/ \E n \in 1..MaxBeats : applyBeats(n)
    \/ startClick
    \/ startResume
    \/ startReject
    \/ \E resumes \in BOOLEAN : startFromKey(resumes)
    \/ stop
    \/ \E cb \in pending : TimeoutFire(cb)
    \/ SpeechNext

Spec == Init /\ [][Next]_vars

\* the lookahead transport alone, under a host that runs the code it has
\* entered, fires a pending timeout, and whose audio clock goes on
TransportInit == Init /\ app = "transport"
TransportNext ==
    \/ TrStart
    \/ TrStop
    \/ TrToggle
    \/ \E t \in Tempos : TrSetTempo(t)
    \/ PumpWake
    \/ \E sub \in {"none", "stop"} : PumpStep(sub)
    \/ PumpEnd
    \/ \E d \in ClockSteps("transport") : ClockAdvance(d)
TransportLive ==
    /\ TransportInit
    /\ [][TransportNext]_vars
    /\ WF_vars(PumpWake)
    /\ WF_vars(PumpStep("none"))
    /\ WF_vars(PumpEnd)
    /\ SF_vars(\E d \in ClockSteps("transport") : ClockAdvance(d))

\* the voice control alone; the host fires a pending restart timer, and a
\* recognition session (continuous = false) comes to its end
SpeechInit == Init /\ app = "speech"
SpeechLive ==
    /\ SpeechInit
    /\ [][SpeechNext]_vars
    /\ WF_vars(RestartFire)
    /\ WF_vars(OnEnd)

(* ------------------------------ properties ----------------------------- *)
EventsOf(seq, type) == {i \in DOMAIN seq : seq[i].type = type}

\* C1: whatever calls were made on the beat sequencer (stepOnce, toggleCell
\* in range, setColumns(n >= 1), setOctaves, setTempo, start, stop), the
\* step index is an integer with 0 <= stepIndex < the column count.
StepIndexInRange == currentStep \in 0..(numCols - 1)

\* the interval's stepOnce has wrapped the index from the last of MaxCols
\* columns to 0
StepIndexWrapped ==
    /\ app = "sequencer"
    /\ lastCall = "stepOnce"
    /\ numCols = MaxCols
    /\ currentStep = 0

\* C2: C consecutive stepOnce calls on a sequencer of C columns, with no
\* other call in between, bring the step index back to where it was before
\* the first of them, and the C step events carry C distinct indices.
RunReturns ==
    Len(runSeen) = numCols =>
        /\ currentStep = runStart
        /\ Cardinality(Range(runSeen)) = numCols

\* a full run over MaxCols columns that started in the middle of the grid
RunFromMiddle ==
    /\ app = "sequencer"
    /\ numCols = MaxCols
    /\ Len(runSeen) = numCols
    /\ runStart > 0

\* C3: when a wake of the running transport (or engine) is over and the
\* tempo has not changed since start(), the next step's time is at least
\* the lookahead ahead of the clock and less than the lookahead plus one
\* step: a wake that follows a jump of the clock by more than one step has
\* emitted exactly the steps needed.
CatchUpExact ==
    /\ (app = "transport" /\ lastCall = "pump.end" /\ trPlaying /\ tempoConst) =>
          /\ nextStepTime >= currentTime + lookaheadMs
          /\ nextStepTime < currentTime + lookaheadMs + StepMs(bpm)
    /\ (app = "engine" /\ lastCall = "scheduler.end" /\ isRunning /\ tempoConst) =>
          /\ nextNoteTime >= currentTime + scheduleAheadMs
          /\ nextNoteTime < currentTime + scheduleAheadMs + 60000 \div engineBpm

\* a timer's wake of the running transport that had to emit several steps:
\* the clock had advanced by more than one step since the wake before
CaughtUp ==
    /\ app = "transport"
    /\ lastCall = "pump.end"
    /\ trPlaying
    /\ tempoConst
    /\ wakeFrom = "timer"
    /\ wakeSteps >= 2

\* C4: once stop() has returned, no wake calls stepOnce (or schedules a
\* beat of the metronome) before the next start(): every stepOnce of pump
\* and every beat of #scheduler finds the transport (the engine) running.
NoStepAfterStop ==
    [][/\ (app = "transport" /\ lastCall' = "stepOnce") => trPlaying
       /\ (lastCall' = "scheduleBeat") => isRunning]_vars

\* C5: setTempo changes the tempo and nothing else, also while playing:
\* the step index, the grid, the notes and the playing flag stay, no event
\* is emitted, and the timer is neither stopped nor started anew.
SetTempoPure ==
    [][lastCall' = "setTempo" =>
          /\ currentStep' = currentStep
          /\ grid' = grid
          /\ notes' = notes
          /\ playing' = playing
          /\ trPlaying' = trPlaying
          /\ timers' = timers
          /\ emitted' = <<>>]_vars

\* C6: in the lookahead transport and the metronome engine a change of
\* tempo while running moves neither the next step's time nor the index and
\* emits nothing; the next step's time advances only with a step, each
\* advance comes with exactly one step (one beat), and its length is the
\* step duration of the tempo then current.
TempoChangeExact ==
    [][/\ (app = "transport" /\ lastCall' = "stepOnce") =>
             /\ nextStepTime' - nextStepTime = StepMs(bpm)
             /\ Cardinality(EventsOf(emitted', "step")) = 1
       /\ (lastCall' = "scheduleBeat") =>
             /\ nextNoteTime' - nextNoteTime = 60000 \div engineBpm
             /\ Cardinality(EventsOf(emitted', "onBeat")) = 1
       /\ (app = "transport" /\ lastCall' = "setTempo") =>
             /\ nextStepTime' = nextStepTime
             /\ currentStep' = currentStep
             /\ trPlaying' = trPlaying
             /\ emitted' = <<>>
       /\ (lastCall' \in {"setBpm", "applyBpm"}) =>
             /\ nextNoteTime' = nextNoteTime
             /\ beatIndex' = beatIndex
             /\ isRunning' = isRunning
             /\ emitted' = <<>>
       /\ (app = "transport" /\ nextStepTime' > nextStepTime) =>
             lastCall' \in {"stepOnce", "start", "toggle"}
       /\ (nextNoteTime' > nextNoteTime) =>
             lastCall' \in {"scheduleBeat", "start", "start.resume", "startFromKey",
                            "setBeatsPerBar", "applyBeats"}]_vars

\* a step of a timer's wake of the transport, made after the tempo was
\* changed while it was running
StepAfterTempoChange ==
    /\ app = "transport"
    /\ lastCall = "stepOnce"
    /\ trPlaying
    /\ ~tempoConst
    /\ wakeFrom = "timer"

BeatIndexInRange == beatIndex < beatsPerBar

\* C9: for every number of beats per bar and every beat the engine
\* schedules, the accent given to the audio tick and to the beat callback is
\* true exactly when the emitted beat index is 0.
AccentIffFirstBeat ==
    lastCall = "scheduleBeat" =>
        /\ emitted[1].accent = (emitted[2].dotIdx = 0)
        /\ emitted[2].isAccent = (emitted[2].dotIdx = 0)

\* a timer's wake of the engine at 3 beats per bar has scheduled the
\* accented first beat
AccentAfterCycle ==
    /\ lastCall = "scheduleBeat"
    /\ beatsPerBar = 3
    /\ beatIndex = 1
    /\ emitted[2].isAccent
    /\ emitted[2].dotIdx = 0
    /\ tempoConst
    /\ wakeFrom = "timer"

\* C10: a visual callback set before a stop(), a start() or a change of
\* beats per bar updates no dot (neither setActiveDot nor resetDots) when it
\* fires after it.
StaleCallbackDiscarded ==
    lastCall = "timeout" => ~(emitted[1].stale /\ emitted[1].updated)

\* C11: when the promise that resumes the audio clock rejects during a
\* start request, the engine does not enter the running state and the page
\* does not show it running, on the click path and on the keyboard path.
StartFailsClosed ==
    [][(lastCall' \in {"start.reject", "startFromKey"} /\ ~emitted'[1].ok) =>
          /\ isRunning' = isRunning
          /\ uiRunning' = uiRunning]_vars

\* C12: stop() on a transport, a self-timed sequencer or a metronome engine
\* that is already stopped changes no state of it, touches no timer, moves
\* no index and emits no event.
StopIdempotent ==
    [][(/\ lastCall' = "stop"
        /\ \/ app = "sequencer" /\ ~playing
           \/ app = "transport" /\ ~trPlaying
           \/ app = "engine" /\ ~isRunning) =>
          /\ UNCHANGED <<seqVars, trVars, engVars, timers>>
          /\ emitted' = <<>>]_vars

\* stop() has returned at its guard on a transport that a subscriber had
\* stopped: the timeout that the interrupted pump set is still pending
StopOnStopped ==
    /\ app = "transport"
    /\ lastCall = "stop"
    /\ emitted = <<>>
    /\ ~trPlaying
    /\ timeoutId # NoTimer

\* C13: start() on a transport, a sequencer or an engine that is already
\* running is a no-op: it stays running, the next step's time and the
\* step (beat) index are unchanged, no second timer is created and no
\* event is emitted; so is the engine.start() that the page makes when its
\* await is over and the engine is running already.
StartNoOp ==
    [][/\ (/\ lastCall' = "start"
           /\ \/ app = "sequencer" /\ playing
              \/ app = "transport" /\ trPlaying
              \/ app = "engine" /\ isRunning) =>
             /\ UNCHANGED <<seqVars, trVars, engVars, timers, pc>>
             /\ emitted' = <<>>
       /\ (lastCall' = "start.resume" /\ isRunning) =>
             /\ UNCHANGED <<engVars, timers, pc>>
             /\ emitted' = <<>>]_vars

\* start() has returned at its guard on an engine that runs at 600 beats a
\* minute and is past its first beat
StartOnRunning ==
    /\ app = "engine"
    /\ lastCall = "start"
    /\ isRunning
    /\ beatIndex > 0
    /\ engineBpm = 600

\* C14: stop() on a running sequencer (transport) leaves it stopped with
\* the step index at 0, changes no cell of the grid and emits a state event
\* that carries index 0; and playback never resumes where it was stopped:
\* every start() that takes effect finds the index at 0.
StopResetsPhase ==
    [][/\ (app = "sequencer" /\ lastCall' = "stop" /\ playing) =>
             /\ ~playing'
             /\ currentStep' = 0
             /\ grid' = grid
             /\ emitted' = <<StateEvent(FALSE, 0)>>
       /\ (app = "transport" /\ lastCall' = "stop" /\ trPlaying) =>
             /\ ~trPlaying'
             /\ currentStep' = 0
             /\ grid' = grid
             /\ emitted' = <<IndexEvent(0)>>
       /\ (app = "sequencer" /\ ~playing /\ playing') => currentStep = 0
       /\ (app = "transport" /\ ~trPlaying /\ trPlaying') => currentStep = 0]_vars

\* C15: between a start() and the next stop() the next step's time never
\* decreases and changes only by one step duration with each step (beat)
\* emitted, also across setTempo / setBpm and setBeatsPerBar calls made
\* while running. (The clock's own advance leaves the absolute time alone:
\* it moves the stored distance to the clock by what the clock advanced.)
NextTimeBySteps ==
    [][/\ (app = "transport" /\ trPlaying /\ trPlaying' /\ lastCall' # "clock") =>
             \/ nextStepTime' = nextStepTime
             \/ /\ lastCall' = "stepOnce"
                /\ nextStepTime' = nextStepTime + StepMs(bpm)
       /\ (isRunning /\ isRunning' /\ lastCall' # "clock") =>
             \/ nextNoteTime' = nextNoteTime
             \/ /\ lastCall' = "scheduleBeat"
                /\ nextNoteTime' = nextNoteTime + 60000 \div engineBpm]_vars

\* C16, as the specification states it: in every state in which the
\* transport (the engine) is playing, the next step's time is at most the
\* lookahead behind the clock, whatever the delays between wakes.
NeverBehindLookahead ==
    /\ (app = "transport" /\ trPlaying) => nextStepTime >= currentTime - lookaheadMs
    /\ isRunning => nextNoteTime >= currentTime - scheduleAheadMs

\* C16, amended: whenever a wake of pump (of #scheduler) is over, the next
\* step's time is at least the lookahead ahead of the clock, whatever the
\* delay before the wake and whatever the tempo changes; between wakes it
\* falls behind the clock by as much as the host delays the wake.
AheadAfterWake ==
    /\ (app = "transport" /\ lastCall = "pump.end") =>
          nextStepTime >= currentTime + lookaheadMs
    /\ lastCall = "scheduler.end" => nextNoteTime >= currentTime + scheduleAheadMs

\* a timer's wake of the transport at tempo 300 (steps of 50 ms) that has
\* emitted 5 steps: it found the next step's time more than the lookahead
\* behind the clock
WakeAfterStall ==
    /\ app = "transport"
    /\ lastCall = "pump.end"
    /\ trPlaying
    /\ tempoConst
    /\ bpm = 300
    /\ wakeFrom = "timer"
    /\ wakeSteps >= 5

\* C17: the sound of a step starts at the clock time the transport gave
\* that step (the next step's time when stepOnce was called, plus at most
\* the row's stagger), never at the clock's present value; the metronome's
\* tick is scheduled at the beat's time.
SoundAtStepTime ==
    [][/\ (app = "player" /\ lastCall' = "stepOnce") =>
             \A i \in EventsOf(emitted', "playNote") :
                emitted'[i].startAt \in
                   nextStepTime..(nextStepTime + emitted'[i].rowIndex * rowStaggerMs)
       /\ lastCall' = "scheduleBeat" => emitted'[1].timeSec = nextNoteTime]_vars

\* C18: stepOnce at index i emits one step event; its index is i, and its
\* hits are exactly the rows whose cell in column i is not empty, in
\* ascending row order, each with the row's note label and the cell's kind
\* (no hit when no cell of the column is set); unless a subscriber stops
\* the sequencer, the index then advances by one and wraps at the last
\* column.
StepHitsExact ==
    [][(app = "sequencer" /\ lastCall' = "stepOnce") =>
          LET ev == emitted'[1]
              hits == ev.hits
          IN  /\ ev.type = "step"
              /\ Cardinality(EventsOf(emitted', "step")) = 1
              /\ ev.stepIndex = currentStep
              /\ \A r \in 0..(Len(notes) - 1) :
                    (At(At(grid, r), currentStep) # Null)
                       = (\E k \in DOMAIN hits : hits[k].row = r)
              /\ \A k \in DOMAIN hits :
                    /\ hits[k].row \in 0..(Len(notes) - 1)
                    /\ hits[k].note = At(notes, hits[k].row)
                    /\ hits[k].soundType = At(At(grid, hits[k].row), currentStep)
              /\ \A k \in 1..(Len(hits) - 1) : hits[k].row < hits[k + 1].row
              /\ playing' => currentStep' = (IF currentStep = numCols - 1 THEN 0
                                             ELSE currentStep + 1)]_vars

\* the step at the last of MaxCols columns has emitted two hits, of rows 0
\* and 1, and the index is back at 0
TwoHitsLastColumn ==
    /\ app = "sequencer"
    /\ lastCall = "stepOnce"
    /\ numCols = MaxCols
    /\ emitted[1].stepIndex = MaxCols - 1
    /\ Len(emitted[1].hits) = 2
    /\ currentStep = 0

\* C19: setColumns(newCols) keeps every cell (r, c) with
\* c < min(oldCols, newCols) as it was, whatever it holds, and every cell
\* of the new grid in a column >= oldCols is empty; the rows stay, each
\* with newCols cells.
ResizeKeepsOverlap ==
    [][lastCall' = "setColumns" =>
          /\ Len(grid') = Len(grid)
          /\ \A r \in DOMAIN grid :
                /\ Len(grid'[r]) = numCols'
                /\ \A c \in 1..Min(numCols, numCols') : grid'[r][c] = grid[r][c]
                /\ \A c \in (numCols + 1)..numCols' : grid'[r][c] = Null]_vars

\* C20: setOctaves(n) keeps the cells of every row that exists before and
\* after the call, and only the rows beyond the old row count start empty.
OctavesKeepOverlap ==
    [][lastCall' = "setOctaves" =>
          /\ \A r \in 1..Min(Len(grid), Len(grid')) : grid'[r] = grid[r]
          /\ \A r \in (Len(grid) + 1)..Len(grid') :
                \A c \in DOMAIN grid'[r] : grid'[r][c] = Null]_vars

\* C21: toggleCell with a row or a column outside the grid is a no-op: it
\* throws nothing, leaves every cell and the shape of the grid as they
\* were, and returns the empty value, as no cell has changed.
OutOfRangeNoOp ==
    [][\A row \in 0..Len(grid), col \in 0..numCols, soundType \in Kinds :
          (/\ ToggleCell(row, col, soundType)
           /\ row >= Len(grid) \/ col >= numCols) =>
             /\ grid' = grid
             /\ \A i \in DOMAIN emitted' : emitted'[i].type # "throw"
             /\ \A i \in EventsOf(emitted', "return") : emitted'[i].value = Null]_vars

\* C22: toggleCell(row, col, kind) on a cell of the grid sets an empty cell
\* to kind and empties a non-empty cell whatever kind is passed, returns the
\* new value of the cell, emits exactly one grid event carrying the whole
\* new grid, and changes no other cell, nor the step index, the tempo or
\* the playing flag; a second toggle of the cell makes it empty again if
\* it was empty before the first.
ToggleFlipsOneCell ==
    [][(lastCall' = "toggleCell" /\ Len(grid') = Len(grid)
            /\ \A i \in DOMAIN emitted' : emitted'[i].type # "throw") =>
          /\ grid' # grid
          /\ \A row \in 0..(Len(grid) - 1), col \in 0..(numCols - 1) :
                At(At(grid', row), col) # At(At(grid, row), col) =>
                   \A soundType \in Kinds :
                      ToggleCell(row, col, soundType) =>
                         LET prev == At(At(grid, row), col)
                             new == At(At(grid', row), col)
                         IN  /\ prev = Null => new = soundType
                             /\ prev # Null => new = Null
                             /\ \A again \in Kinds :
                                   (Toggled(new, again) = Null) = (prev = Null)
                             /\ emitted' = <<GridEvent(grid', notes, numCols),
                                             [type |-> "return", value |-> new]>>
                             /\ \A r \in DOMAIN grid :
                                   /\ Len(grid'[r]) = Len(grid[r])
                                   /\ \A c \in DOMAIN grid[r] :
                                         (r # row + 1 \/ c # col + 1)
                                            => grid'[r][c] = grid[r][c]
                             /\ UNCHANGED <<currentStep, bpm, playing, notes, numCols>>]_vars

\* a toggle has emptied a cell while the sequencer is playing, past its
\* first column, and another cell is still set
ToggledOffWhilePlaying ==
    /\ lastCall = "toggleCell"
    /\ playing
    /\ currentStep > 0
    /\ \E i \in EventsOf(emitted, "return") : emitted[i].value = Null
    /\ ActiveCells(grid) > 0

\* C23: in every reachable state of the sequencer the grid is rectangular:
\* every row has exactly numCols cells, after any toggleCell (with any row
\* and column), setColumns, setOctaves and stepOnce calls.
GridRectangular == \A r \in DOMAIN grid : Len(grid[r]) = numCols

\* C24: in every reachable state of the sequencer the grid has one row per
\* note, the notes are the scale repeated once per octave, octave by
\* octave from the start octave, so that row r is the row of notes[r], and
\* every grid event carries that many rows and those notes, also after
\* setOctaves.
RowsMatchNotes ==
    /\ Len(grid) = Len(notes)
    /\ Len(notes) = Len(Pentatonic) * numOctaves
    /\ \A r \in 0..(Len(notes) - 1) :
          At(notes, r) = <<At(Pentatonic, r % Len(Pentatonic)),
                           StartOctave + (r \div Len(Pentatonic))>>
    /\ \A i \in EventsOf(emitted, "grid") :
          /\ Len(emitted[i].grid) = Len(emitted[i].notes)
          /\ emitted[i].notes = notes

\* setOctaves has run on a playing sequencer and left MaxOctaves octaves
OctavesSetWhilePlaying ==
    /\ lastCall = "setOctaves"
    /\ playing
    /\ numOctaves = MaxOctaves
    /\ Len(grid) = MaxOctaves * Len(Pentatonic)
    /\ EventsOf(emitted, "grid") # {}

EachSubscriberOnce ==
    app = "bus" =>
      /\ \A i \in DOMAIN emitted :
            emitted[i].type \in Classes =>
               LET type == emitted[i].type
                   calls == Emit(type, emitted[i])
               IN  /\ \A fn \in Subscribers :
                         Cardinality({j \in DOMAIN calls : calls[j].sub = fn})
                            = IF fn \in Range(listeners[type]) THEN 1 ELSE 0
                   /\ \A j \in DOMAIN calls :
                         /\ calls[j].payload = emitted[i]
                         /\ calls[j].sub = listeners[type][j]
      /\ lastCall = "on" =>
            LET e == emitted[1]
            IN  /\ e.sub \in Range(listeners[e.class])
                /\ SetDelete(listeners[e.class], e.sub) = SetDelete(e.before, e.sub)
                /\ e.sub \notin Range(e.before) =>
                      listeners[e.class][Len(listeners[e.class])] = e.sub
                /\ e.sub \in Range(e.before) => listeners[e.class] = e.before
      /\ lastCall = "off" =>
            LET e == emitted[1]
            IN  /\ e.sub \notin Range(listeners[e.class])
                /\ listeners[e.class] = SetDelete(e.before, e.sub)
                /\ \A type \in Classes, i \in DOMAIN emitted :
                      \A j \in DOMAIN Emit(e.class, emitted[i]) :
                         Emit(e.class, emitted[i])[j].sub # e.sub

\* a step has been delivered to two subscribers, the later-named one
\* first, while the state events go to one subscriber only
StepToTwoSubscribers ==
    /\ app = "bus"
    /\ lastCall = "stepOnce"
    /\ listeners["step"] = <<"b", "a">>
    /\ listeners["state"] = <<"a">>
    /\ listeners["grid"] = <<>>

\* C28: whatever ensureStarted() and tickAt() calls were made, overlapping
\* ensureStarted() calls that nobody awaits included, the audio has made at
\* most one context (with its master gain and noise buffers), and a
\* tickAt() before the first ensureStarted() schedules no sound.
ContextMadeOnce ==
    /\ contexts <= 1
    /\ \A i \in EventsOf(emitted, "tickAt") : emitted[i].sounds = (contexts = 1)

\* Space has started the 4-beat page, with ensureStarted() not awaited,
\* while a click's start() is still awaiting its own ensureStarted()
EnsureStartedOverlaps ==
    /\ app = "metronome"
    /\ lastCall = "startFromKey"
    /\ starting > 0
    /\ contexts = 1

BeatTimestampNotEarly ==
    \A i \in EventsOf(emitted, "onBeat") :
        /\ emitted[i].delay >= 0
        /\ \A j \in EventsOf(emitted, "tickAt") :
              emitted[i].delay = Max(0, emitted[j].timeSec - currentTime)

\* the engine's start() has been called by the last call
EngineStartCalled ==
    \/ app = "engine" /\ lastCall' = "start"
    \/ lastCall' \in {"start.resume", "startFromKey"}

\* C31: every start() of the metronome engine resets the phase: after any
\* start() call the beat index is 0, so the first beat scheduled after it
\* is beat 0, with the accent.
EveryStartResetsPhase ==
    [][EngineStartCalled => beatIndex' = 0]_vars

\* C31, amended: every start() of a stopped engine sets the beat index to
\* 0; while the engine runs with index 0 only a scheduled beat moves the
\* index, and that beat is beat 0 with the accent, for its tick and for
\* its visual callback. A start() of a running engine changes nothing.
StartResetsPhase ==
    [][/\ (~isRunning /\ isRunning') => (EngineStartCalled /\ beatIndex' = 0)
       /\ (EngineStartCalled /\ isRunning) =>
             UNCHANGED <<beatIndex, nextNoteTime, isRunning, intervalId>>
       /\ (isRunning /\ beatIndex = 0 /\ lastCall' = "scheduleBeat") =>
             /\ \A i \in EventsOf(emitted', "onBeat") :
                   emitted'[i].dotIdx = 0 /\ emitted'[i].isAccent
             /\ \A i \in EventsOf(emitted', "tickAt") : emitted'[i].accent
             /\ EventsOf(emitted', "onBeat") # {}
       /\ (isRunning /\ beatIndex = 0 /\ lastCall' # "scheduleBeat") =>
             beatIndex' = 0]_vars

\* the page's engine has been started again while a callback of an earlier
\* run, for a beat after the first, is still outstanding
RestartedAfterRun ==
    /\ app = "metronome"
    /\ lastCall \in {"start.resume", "startFromKey"}
    /\ isRunning
    /\ beatIndex = 0
    /\ \E cb \in pending : cb.stale /\ cb.dotIdx > 0

(* ---------------------------- speech.js --------------------------------- *)
\* recognition.start() was invoked by the last call
RecognitionStarted == EventsOf(emitted, "recognition.start") # {}

\* the last call was a 'no-speech' error of an enabled controller
SilenceWhileEnabled == lastCall = "onerror" /\ heard = "no-speech" /\ enabled

\* C32: while listening is enabled, every onend leads to a new
\* recognition.start() from the restart timer unless stop() disables the
\* controller first; a 'no-speech' error of an enabled controller calls no
\* callback, leaves the session status alone, and leads to the same restart.
RestartsAfterEnd ==
    /\ (lastCall = "onend" /\ enabled)
          ~> ((lastCall = "restart" /\ RecognitionStarted) \/ ~enabled)
    /\ SilenceWhileEnabled
          ~> ((lastCall = "restart" /\ RecognitionStarted) \/ ~enabled)
    /\ [](SilenceWhileEnabled => emitted = <<>> /\ recognition = "ending")

RestartedAfterSilence ==
    /\ lastCall = "restart"
    /\ heard = "no-speech"
    /\ enabled
    /\ recognition = "active"
    /\ \E i \in EventsOf(emitted, "recognition.start") : emitted[i].ok

\* C33: at most one onCommand call is made in a recognition session: a
\* result that arrives after a command has fired calls neither onCommand nor
\* recognition.stop(), and no latch and no count is left when the session
\* is over.
OneCommandPerSession ==
    /\ sessionCommands <= 1
    /\ (sessionCommands = 1) = firedThisSession
    /\ recognition \in {"none", "inactive"} => ~firedThisSession
    /\ lastCall = "onresult" =>
          /\ Cardinality(EventsOf(emitted, "onCommand")) <= 1
          /\ EventsOf(emitted, "onCommand") # {} =>
                /\ heard # "none"
                /\ firedThisSession
                /\ \A i \in EventsOf(emitted, "onCommand") : emitted[i].command = heard

SecondCommandIgnored ==
    /\ lastCall = "onresult"
    /\ heard \in {"next", "stop-listening"}
    /\ firedThisSession
    /\ EventsOf(emitted, "onCommand") = {}
    /\ EventsOf(emitted, "recognition.stop") = {}

\* C34: stop() leaves the controller disabled, and a disabled controller
\* stays disabled and makes no recognition.start() call, whatever timer
\* callback or recogniser event arrives, until start() (or toggle()) is
\* called.
NoStartAfterStop ==
    [][/\ lastCall' = "speech.stop" => ~enabled' /\ ~restartTimer'
       /\ (enabled /\ lastCall' = "speech.toggle") => ~enabled' /\ ~restartTimer'
       /\ (~enabled /\ lastCall' \notin {"speech.start", "speech.toggle"}) =>
             /\ ~enabled'
             /\ EventsOf(emitted', "recognition.start") = {}]_vars

StoppedBeforeRestart ==
    /\ lastCall = "speech.stop"
    /\ recognition = "inactive"
    /\ ~enabled
    /\ EventsOf(emitted, "onState") # {}

(* ------------------------- wake timers ---------------------------------- *)
\* the pending wake timers of the transport
PumpTimers == {t \in timers : t.handler = "pump"}

\* C35: while no transport code is running, a wake timer is pending exactly
\* when the transport is playing, and there is never more than one.
WakeIffPlaying ==
    (OnTransport /\ pc = "idle") =>
        /\ (PumpTimers # {}) = trPlaying
        /\ Cardinality(PumpTimers) <= 1

(* ------------------------- restart and catch-up ------------------------- *)
CeilDiv(a, b) == (a + b - 1) \div b

\* the time of the first step of the engine's wake in progress
WakeEntry == nextNoteTime - wakeSteps * (60000 \div engineBpm)

\* C36: the first wake after a start() emits at most lookahead / step
\* (rounded up) steps, for the transport (the pump that start() runs) and
\* for the metronome engine (the first run of #scheduler after start()).
FirstWakeBounded ==
    /\ (OnTransport /\ wakeFrom = "start" /\ tempoConst) =>
          wakeSteps <= CeilDiv(lookaheadMs, StepMs(bpm))
    /\ (app = "engine" /\ wakeFrom = "first" /\ tempoConst) =>
          wakeSteps <= CeilDiv(scheduleAheadMs, 60000 \div engineBpm)

\* C36, amended: a start() of a stopped transport or engine sets the next
\* step's time to the clock's value plus the offset, whatever it held; the
\* pump that the transport's start() runs emits at most lookahead / step
\* (rounded up) steps; the engine's first wake begins at most the offset
\* ahead of the clock and emits the steps between that time and the
\* window's end, a number that grows with the lateness of the wake only.
RestartRebased ==
    /\ [][/\ (OnTransport /\ ~trPlaying /\ trPlaying') =>
                nextStepTime' = currentTime + startOffsetMs
          /\ (app \in {"engine", "metronome"} /\ ~isRunning /\ isRunning') =>
                nextNoteTime' = currentTime + PrimeMs]_vars
    /\ []((OnTransport /\ wakeFrom = "start" /\ tempoConst) =>
             /\ wakeSteps <= CeilDiv(lookaheadMs, StepMs(bpm))
             /\ nextStepTime = currentTime + startOffsetMs + wakeSteps * StepMs(bpm))
    /\ []((app = "engine" /\ wakeFrom = "first" /\ tempoConst) =>
             /\ WakeEntry <= currentTime + PrimeMs
             /\ WakeEntry >= currentTime - MaxLag
             /\ wakeSteps <= CeilDiv(scheduleAheadMs - WakeEntry, 60000 \div engineBpm))

\* the transport was started again while a timeout of its last run was
\* pending, and the pump of that start() has emitted its steps
RestartedWithTimerPending ==
    /\ OnTransport
    /\ wakeFrom = "start"
    /\ lastCall = "pump.end"
    /\ trPlaying
    /\ wakeSteps = 2
    /\ Cardinality(PumpTimers) = 2

(* ------------------- part_001: play and stop buttons -------------------- *)
\* C37: when the stop button was the last request and the handler of an
\* earlier play click then completes, leaving no handler pending, the
\* transport is not playing.
StopIsFinal ==
    [][(/\ app = "player"
        /\ lastCall = "stop"
        /\ lastCall' = "playBtn.resume"
        /\ starting' = 0) => ~trPlaying']_vars

(* ------------------------- transport progress --------------------------- *)
\* the last call was a stepOnce that emitted the logical step k
StepEmitted(k) ==
    /\ lastCall = "stepOnce"
    /\ \E i \in EventsOf(emitted, "step") : emitted[i].stepIndex = k

\* C38: while the transport runs, a pump wake comes to its end and arms
\* exactly one timeout, and every logical step of the grid is emitted again
\* and again unless the transport is stopped.
TransportProgress ==
    /\ (pc = "pump") ~> (pc = "idle")
    /\ \A k \in 0..(MaxCols - 1) :
          (trPlaying /\ k < numCols) ~> (~trPlaying \/ StepEmitted(k))
    /\ [][(pc = "pump" /\ pc' = "idle") =>
             /\ lastCall' = "pump.end"
             /\ Cardinality(timers') = Cardinality(timers) + 1
             /\ timeoutId' \in {t.id : t \in PumpTimers'} \ {t.id : t \in PumpTimers}]_vars

\* a wake of the running transport, late by more than a step, has caught up
\* and emitted the grid's last step
LastStepAfterCatchUp ==
    /\ app = "transport"
    /\ trPlaying
    /\ pc = "pump"
    /\ wakeFrom = "timer"
    /\ wakeSteps >= 2
    /\ numCols = MaxCols
    /\ StepEmitted(numCols - 1)

(* --------------------------- MetronomeUI: dots -------------------------- *)
\* C39: on the metronome's page at most one dot carries the class
\* is-active, it is one of the rendered dots and the one #activeIdx names,
\* and #activeIdx is -1 or the index of a rendered dot.
OneActiveDotInRange ==
    /\ Cardinality(lit) <= 1
    /\ lit \subseteq 0..(dots - 1)
    /\ (app = "metronome" /\ page = "main.js") =>
          /\ activeIdx = -1 \/ activeIdx \in 0..(dots - 1)
          /\ lit = (IF activeIdx = -1 THEN {} ELSE {activeIdx})

\* a callback for a dot that is no longer rendered fires after the beats
\* were reduced, and is discarded
CallbackForRemovedDot ==
    /\ page = "main.js"
    /\ lastCall = "timeout"
    /\ \E i \in EventsOf(emitted, "dots") :
          /\ emitted[i].stage = "show"
          /\ emitted[i].dotIdx >= dots
          /\ ~emitted[i].updated

====
